---- MODULE Spec2Model ----
(***************************************************************************)
(* The SD-card supervisor of the e-ink picture frame (sd_monitor.py): the  *)
(* poll loop monitor_sd_card, the worker lifecycle functions               *)
(* start_frame_manager / stop_frame_manager, the refresh-time and the      *)
(* quiet-hours helpers, together with the operating-system processes the   *)
(* supervisor spawns; the settings loader; and the bucket synchronizer     *)
(* S3Manager (s3_manager/manger.py) with the bucket and the local          *)
(* directory it works on.                                                  *)
(***************************************************************************)
EXTENDS Integers, Sequences, FiniteSets, TLC

(* ------------------------------ bounds --------------------------------- *)

\* Times of day are 0 .. DayLen-1 (an abstract resolution of the 24h clock).
DayLen == 2

\* At most MaxOrphans stop failures may leave a live worker behind untracked.
MaxOrphans == 1

\* The quiet-hours evaluator on its own is run over the times 0 .. ClockLen-1.
ClockLen == 5

(* ------------------------------ values --------------------------------- *)

\* `process = None`: no worker handle.
None == 0

Pids == 1 .. (MaxOrphans + 2)

Times == 0 .. (DayLen - 1)

ClockTimes == 0 .. (ClockLen - 1)

\* Directory names that can show up under SD_MOUNT_BASE.
Volumes == {"sda1", "sdb1"}

\* What `valid_dirs` can be: the directories under the mount root in the
\* order os.listdir returns them (no order is imposed by the code).
DirListings ==
    {<<>>} \cup {<<v>> : v \in Volumes}
           \cup {l \in {<<v, w>> : v \in Volumes, w \in Volumes} : l[1] # l[2]}

\* A JSON value of change_interval_minutes: an integer or null.
JInt(n) == [k |-> "int", v |-> n]
JNull == [k |-> "null", v |-> 0]
IntervalValues == {JNull, JInt(0), JInt(2)}

\* An "HH:MM" string of the configuration, by what parse_hhmm makes of it:
\* a time of day, an empty string, or a string that does not parse.
HHMM(t) == [k |-> "hhmm", v |-> t]
EmptyStr == [k |-> "empty", v |-> 0]
BadStr == [k |-> "bad", v |-> 0]

\* stop_rotation_between: null or {"evening": .., "morning": ..}.
NoWindow == [k |-> "null", evening |-> EmptyStr, morning |-> EmptyStr]
WindowValues ==
    {NoWindow} \cup
    {[k |-> "dict", evening |-> e, morning |-> m] :
        e \in {BadStr} \cup {HHMM(t) : t \in Times}, m \in {HHMM(t) : t \in Times}}

\* The resolved settings the supervisor works with (the keys it reads).
ResolvedSettings ==
    [change_interval_minutes : IntervalValues, stop_rotation_between : WindowValues]

\* What os.listdir and the isdir filter give a tick: an error, or valid_dirs.
Listings ==
    {[listed |-> FALSE, valid_dirs |-> <<>>]} \cup
    {[listed |-> TRUE, valid_dirs |-> d] : d \in DirListings}

\* refresh_time.txt on the volume: missing, or its text as characters.
NoFile == [exists |-> FALSE, text |-> <<>>]
FileOf(txt) == [exists |-> TRUE, text |-> txt]
Files == {NoFile, FileOf(<<"4", "5", "\n">>), FileOf(<<"x">>)}

\* SETTINGS_LOCATIONS, in the order load_settings tries them.
SETTINGS_LOCATIONS ==
    <<"/etc/epaper_frame/settings.json", "~/.config/epaper_frame/settings.json",
      "SCRIPT_DIR/settings.json">>

Locations == 1 .. Len(SETTINGS_LOCATIONS)

\* A dict is a function on AllKeys that maps the keys it lacks to NoValue;
\* the values are JSON texts.
NoValue == "absent"

DefaultKeys == {"picture_mode", "change_interval_minutes", "stop_rotation_between",
                "s3_folder"}

\* A key the program does not know.
UnknownKeys == {"brightness"}

AllKeys == DefaultKeys \cup UnknownKeys

DEFAULT_SETTINGS ==
    [key \in AllKeys |->
        CASE key = "picture_mode" -> "local"
          [] key = "change_interval_minutes" -> "15"
          [] key = "stop_rotation_between" -> "null"
          [] key = "s3_folder" -> "s3_folder"
          [] OTHER -> NoValue]

\* What json.load returns: a dict, or another JSON value (here a list).
JDict(d) == [k |-> "dict", d |-> d]
JList == [k |-> "list", d |-> [key \in AllKeys |-> NoValue]]

JsonValues == {"15", "null"}

\* Every dict over AllKeys with values in JsonValues, and a non-dict.
Overrides == {JList} \cup {JDict(d) : d \in [AllKeys -> JsonValues \cup {NoValue}]}

\* The documents tried at the settings locations: a non-dict, the empty
\* dict, a dict with one known and one unknown key, a dict with every key.
Documents ==
    {JList,
     JDict([key \in AllKeys |-> NoValue]),
     JDict([key \in AllKeys |->
               IF key \in {"picture_mode"} \cup UnknownKeys THEN "null" ELSE NoValue]),
     JDict([key \in AllKeys |-> IF key \in DefaultKeys THEN "15" ELSE NoValue])}

\* A settings location: nothing there, something that cannot be opened or
\* parsed, or a JSON document.
Missing == [exists |-> FALSE, parses |-> FALSE, data |-> JList]
Garbled == [exists |-> TRUE, parses |-> FALSE, data |-> JList]
Parsed(doc) == [exists |-> TRUE, parses |-> TRUE, data |-> doc]

FileStates == {Missing, Garbled} \cup {Parsed(doc) : doc \in Documents}

\* Keys and relative paths are strings, written as sequences of characters.
\* The keys a bucket may hold at first: files at the top and in folders, a
\* directory marker, and a key with an empty path segment.
SeedKeys ==
    {<<"a">>, <<"d", "/">>, <<"d", "/", "/", "b">>, <<"d", "/", "b">>,
     <<"p", "/", "a">>}

\* Every key of the bucket, in the order list_objects_v2 returns keys
\* (ascending by their bytes).
KeyOrder ==
    <<  <<"/", "a">>, <<"a">>, <<"b">>, <<"d", "/">>, <<"d", "/", "/", "b">>,
        <<"d", "/", "b">>, <<"p", "/", "a">>, <<"p", "/", "b">>,
        <<"p", "/", "d", "/", "b">>, <<"p", "/", "p", "/", "a">>  >>

BucketKeys == {KeyOrder[i] : i \in 1 .. Len(KeyOrder)}

\* The files a local directory may hold, by their path relative to it.
LocalPaths == {<<"a">>, <<"d", "/", "b">>, <<"p", "/", "a">>}

\* What an object or a file holds.
Contents == {"A", "B"}

\* The `prefix` arguments S3Manager is constructed with.
RawPrefixes == {<<>>, <<"p">>, <<"/", "p", "/">>}

\* The S3 service: everything works, the bucket does not exist (every call
\* is answered with a ClientError), listing is denied (list_objects_v2 is
\* answered with a ClientError), or no endpoint is reached (every call
\* fails in the client with a BotoCoreError).
Services == {"ok", "no_bucket", "list_denied", "offline"}

\* put_file's `key` argument: None, or a string.
KeyNone == [given |-> FALSE, k |-> <<>>]
KeyOf(str) == [given |-> TRUE, k |-> str]

PutKeyArgs == {KeyNone, KeyOf(<<"a">>), KeyOf(<<"/", "a">>), KeyOf(<<"p", "/", "a">>)}

NoCall ==
    [op |-> "none", delete_extraneous |-> FALSE, overwrite_existing |-> FALSE,
     raise_on_error |-> FALSE, local_path |-> <<>>, key |-> KeyNone,
     outcome |-> "none", value |-> FALSE]

NoError == "none"

NoCont == [k |-> "none", sd_path |-> ""]

NoArgs == [sd_path |-> "", refresh |-> 0]

Op(kind, pid, path, refresh) ==
    [op |-> kind, pid |-> pid, sd_path |-> path, refresh |-> refresh]

(* ------------------------------ state ---------------------------------- *)

VARIABLES
    settings,        \* monitor_sd_card: settings = load_settings()
    sd_inserted,     \* monitor_sd_card local
    sd_was_removed,  \* module global
    was_in_quiet,    \* monitor_sd_card local
    process,         \* module global: the worker handle, None or a pid
    pc,              \* where the loop is: "tick", "wait", "sleep", "crashed", "call"
    cont,            \* while blocked in process.wait(): the caller and its sd_path
    alive,           \* operating system: the spawned workers still running
    signalled,       \* operating system: live workers with a SIGTERM delivered
    argv,            \* process.args: the path and refresh time given to Popen
    obs,             \* what the current tick observed
    pre,             \* the supervisor state when the current tick began
    ops,             \* the lifecycle calls issued by the current tick, in order
    caught,          \* the exception that left the try body (logged at the boundary)
    stop_logged,     \* stop_frame_manager printed "Error stopping frame_manager"
    orphans,         \* live workers whose handle was dropped after a failed stop
    spawn_pending,   \* the last Popen raised and none has succeeded since
    on_disk,         \* change_interval_minutes in the settings file as it is now
    clock,           \* in_quiet_hours called on its own: now, evening, morning
    quiet,           \* ... and what it returned
    files,           \* what is found at each of SETTINGS_LOCATIONS
    loaded,          \* load_settings called on its own: what it returned and opened
    override,        \* a parsed settings document (`data`)
    merged,          \* the settings after each merge of `override` into them
    objects,         \* the bucket: the content stored under each key
    objects_before,  \* the bucket as it was when the method was called
    service,         \* how the S3 service answers this client
    prefix,          \* S3Manager.prefix
    local_dir,       \* the local directory: whether it exists, and its files
    call,            \* the S3Manager method called, its arguments and outcome
    watch            \* the volume of the latest worker and the ticks without one since

\* The supervisor and the processes it spawns.
supervisor == <<settings, sd_inserted, sd_was_removed, was_in_quiet, process, pc, cont,
                alive, signalled, argv, obs, pre, ops, caught, stop_logged, orphans,
                spawn_pending>>

\* The quiet-hours evaluator called on its own.
evaluator == <<clock, quiet>>

\* The settings loader called on its own, and its merge loop.
loader == <<files, loaded, override, merged>>

\* The bucket synchronizer, the bucket and the local directory.
s3 == <<objects, objects_before, service, prefix, local_dir, call>>

\* What a step of the supervisor or of a worker leaves alone.
aside == <<on_disk, watch, evaluator, loader, s3>>

vars == <<supervisor, aside>>

flags == <<sd_inserted, sd_was_removed, was_in_quiet>>

(* --------------------------- pure helpers ------------------------------ *)

IsSpace(c) == c \in {" ", "\n", "\t"}

RECURSIVE LStrip(_)
LStrip(s) == IF s # <<>> /\ IsSpace(Head(s)) THEN LStrip(Tail(s)) ELSE s

RECURSIVE RStrip(_)
RStrip(s) ==
    IF s # <<>> /\ IsSpace(s[Len(s)]) THEN RStrip(SubSeq(s, 1, Len(s) - 1)) ELSE s

\* str.strip()
Strip(s) == RStrip(LStrip(s))

Digits == <<"0", "1", "2", "3", "4", "5", "6", "7", "8", "9">>

DigitVal(c) == (CHOOSE i \in 1 .. 10 : Digits[i] = c) - 1

\* str.isdigit()
IsDigit(s) == s # <<>> /\ \A i \in 1 .. Len(s) : \E j \in 1 .. 10 : Digits[j] = s[i]

RECURSIVE ParseInt(_)
ParseInt(s) ==
    IF s = <<>> THEN 0
    ELSE 10 * ParseInt(SubSeq(s, 1, Len(s) - 1)) + DigitVal(s[Len(s)])

\* Variant: the minutes are passed on as seconds (the factor 60 is lost).
get_refresh_time_in_minutes(file, s) ==
    LET change_interval == s.change_interval_minutes
    IN  IF change_interval.k = "int" /\ change_interval.v > 0
        THEN change_interval.v
        ELSE 600

\* get_refresh_time: change_interval_minutes * 60 when it is a positive
\* integer, else the number in refresh_time.txt, else 600.
get_refresh_time(file, s) ==
    LET change_interval == s.change_interval_minutes
    IN  IF change_interval.k = "int" /\ change_interval.v > 0
        THEN change_interval.v * 60
        ELSE IF file.exists
             THEN LET number == Strip(file.text)
                  IN  IF IsDigit(number) THEN ParseInt(number) ELSE 600
             ELSE 600

NoTime == 0 - 1

\* parse_hhmm: the time of day, or NoTime (Python None) when it fails.
parse_hhmm(value) == IF value.k = "hhmm" THEN value.v ELSE NoTime

NoQuiet == [set |-> FALSE, evening |-> 0, morning |-> 0]

\* Variant: a missing window is taken as the window from midnight to midnight.
parse_stop_rotation_between_default_window(cfg) ==
    IF cfg.k # "dict" THEN [set |-> TRUE, evening |-> 0, morning |-> 0]
    ELSE IF cfg.evening.k = "empty" \/ cfg.morning.k = "empty" THEN NoQuiet
    ELSE LET evening == parse_hhmm(cfg.evening)
             morning == parse_hhmm(cfg.morning)
         IN  IF evening = NoTime \/ morning = NoTime THEN NoQuiet
             ELSE [set |-> TRUE, evening |-> evening, morning |-> morning]

\* parse_stop_rotation_between: (evening, morning) or None.
parse_stop_rotation_between(cfg) ==
    IF cfg.k # "dict" THEN NoQuiet
    ELSE IF cfg.evening.k = "empty" \/ cfg.morning.k = "empty" THEN NoQuiet
    ELSE LET evening == parse_hhmm(cfg.evening)
             morning == parse_hhmm(cfg.morning)
         IN  IF evening = NoTime \/ morning = NoTime THEN NoQuiet
             ELSE [set |-> TRUE, evening |-> evening, morning |-> morning]

\* Variant: the same-day window includes its end.
in_quiet_hours_end_inclusive(current, evening, morning) ==
    IF evening < morning
    THEN evening <= current /\ current <= morning
    ELSE current >= evening \/ current < morning

\* Variant: the window that crosses midnight starts after its first minute.
in_quiet_hours_late_start(current, evening, morning) ==
    IF evening < morning
    THEN evening <= current /\ current < morning
    ELSE current > evening \/ current < morning

\* Variant: equal times are taken as a same-day window (which is empty).
in_quiet_hours_equal_is_same_day(current, evening, morning) ==
    IF evening <= morning
    THEN evening <= current /\ current < morning
    ELSE current >= evening \/ current < morning

\* in_quiet_hours, on times of day counted from midnight (`current` is
\* now.time()): a same-day window, or one that crosses midnight.
in_quiet_hours(current, evening, morning) ==
    IF evening < morning
    THEN evening <= current /\ current < morning
    ELSE current >= evening \/ current < morning

\* monitor_sd_card: quiet_cfg, computed once before the loop.
quiet_cfg == parse_stop_rotation_between(settings.stop_rotation_between)

\* monitor_sd_card: in_quiet of a tick at time `now`.
InQuiet(now) ==
    IF quiet_cfg.set THEN in_quiet_hours(now, quiet_cfg.evening, quiet_cfg.morning)
    ELSE FALSE

\* Variant: the liveness test is inverted (`poll() is not None`).
IsRunningInverted(p, live) == p # None /\ p \notin live

\* `process is not None and process.poll() is None`
IsRunning(p, live) == p # None /\ p \in live

running == IsRunning(process, alive)

\* Variant: the wait is not blocking (as with a zero timeout that is ignored).
WaitReturnsEarly(p, live) == TRUE

\* process.wait() returns when the child has exited, not before.
WaitReturns(p, live) == p \notin live

\* Variant: only insertion and reinsertion start the worker.
need_start_on_insert_only(inserted, removed, isrunning, quiet_before) ==
    ~inserted \/ removed

\* Variant: the worker is restarted on every tick that sees the volume.
need_start_always(inserted, removed, isrunning, quiet_before) == TRUE

\* Variant: only the first sight of a volume starts the worker.
need_start_first_sight_only(inserted, removed, isrunning, quiet_before) == ~inserted

\* monitor_sd_card, volume present and not quiet: the need_start decision.
need_start(inserted, removed, isrunning, quiet_before) ==
    IF ~inserted THEN TRUE
    ELSE IF removed THEN TRUE
    ELSE IF ~isrunning THEN TRUE
    ELSE IF quiet_before THEN TRUE
    ELSE FALSE

\* Variant: the tick has no exception handler.
TickCatchesNothing(e) == FALSE

\* monitor_sd_card: `except Exception` around the body of a tick.
TickCatches(e) == TRUE

\* Variant: stop_frame_manager has no exception handler.
StopCatchesNothing(e) == FALSE

\* stop_frame_manager: `except Exception` around send_signal and wait.
StopCatches(e) == TRUE

\* Variant: every key of the document is copied, known or not.
merge_every_key(s, data) ==
    IF data.k = "dict"
    THEN [key \in AllKeys |-> IF data.d[key] # NoValue THEN data.d[key] ELSE s[key]]
    ELSE s

\* load_settings, the merge loop: the document's values for the keys of
\* DEFAULT_SETTINGS go into `settings`; nothing happens for a non-dict.
merge(s, data) ==
    IF data.k = "dict"
    THEN [key \in AllKeys |->
             IF key \in DefaultKeys /\ data.d[key] # NoValue THEN data.d[key] ELSE s[key]]
    ELSE s

\* load_settings, the loop over the locations from the i-th on: a location
\* that does not exist is passed over, one that fails to open or parse is
\* logged and passed over, the first that parses is merged and ends the loop.
RECURSIVE load_from(_, _, _)
load_from(i, fs, opened) ==
    IF i > Len(SETTINGS_LOCATIONS)
    THEN [settings |-> DEFAULT_SETTINGS, opened |-> opened]
    ELSE IF ~fs[i].exists THEN load_from(i + 1, fs, opened)
    ELSE IF ~fs[i].parses THEN load_from(i + 1, fs, Append(opened, i))
    ELSE [settings |-> merge(DEFAULT_SETTINGS, fs[i].data),
          opened |-> Append(opened, i)]

\* Variant: the first location is not tried.
load_settings_skips_first(fs) == load_from(2, fs, <<>>)

load_settings(fs) == load_from(1, fs, <<>>)

startswith(str, pre_str) ==
    Len(str) >= Len(pre_str) /\ SubSeq(str, 1, Len(pre_str)) = pre_str

\* str.endswith("/")
endswith_slash(str) == str # <<>> /\ str[Len(str)] = "/"

RECURSIVE lstrip_slash(_)
lstrip_slash(str) ==
    IF str # <<>> /\ Head(str) = "/" THEN lstrip_slash(Tail(str)) ELSE str

RECURSIVE rstrip_slash(_)
rstrip_slash(str) ==
    IF endswith_slash(str) THEN rstrip_slash(SubSeq(str, 1, Len(str) - 1)) ELSE str

\* S3Manager.__init__: the prefix is '' or 'some/prefix/'.
NormalizePrefix(raw) ==
    LET stripped == rstrip_slash(lstrip_slash(raw))
    IN  IF stripped # <<>> THEN stripped \o <<"/">> ELSE stripped

\* pathlib: the path `local_dir / rel` relative to local_dir, as_posix();
\* repeated and trailing slashes do not survive in a Path.
RECURSIVE PosixPath(_)
PosixPath(rel) ==
    IF rel = <<>> THEN <<>>
    ELSE IF Head(rel) = "/" /\ (Len(rel) = 1 \/ rel[2] = "/") THEN PosixPath(Tail(rel))
    ELSE <<Head(rel)>> \o PosixPath(Tail(rel))

\* `key[len(self.prefix):] if self.prefix else key`
RelKey(key, pre_str) ==
    IF pre_str # <<>> THEN SubSeq(key, Len(pre_str) + 1, Len(key)) ELSE key

\* paginate(Bucket, Prefix): the stored keys that start with the prefix, in
\* the order of the listing.
ListKeys(objs, pre_str) ==
    SelectSeq(KeyOrder, LAMBDA key : objs[key] # NoValue /\ startswith(key, pre_str))

\* ... without the "directory marker" keys.
ListedFiles(objs, pre_str) ==
    SelectSeq(ListKeys(objs, pre_str), LAMBDA key : ~endswith_slash(key))

\* local_dir.rglob("*") filtered by is_file(), as relative posix paths.
LocalFiles(dir) == {rel \in LocalPaths : dir.files[rel] # NoValue}

\* Variant: the object is stored under the relative path, without the prefix.
UploadKeyWithoutPrefix(pre_str, rel) == rel

\* sync_local_to_bucket: `key = self.prefix + rel`
UploadKey(pre_str, rel) == pre_str \o rel

\* sync_local_to_bucket, step 1: the bucket after the upload loop.
Uploaded(objs, dir, pre_str, overwrite_existing) ==
    [key \in BucketKeys |->
        IF \E rel \in LocalFiles(dir) :
              /\ key = UploadKey(pre_str, rel)
              /\ (overwrite_existing \/ objs[key] = NoValue)
        THEN dir.files[CHOOSE rel \in LocalFiles(dir) : key = UploadKey(pre_str, rel)]
        ELSE objs[key]]

\* sync_local_to_bucket, step 2: the bucket after delete_objects on the
\* listed keys whose relative key is no local file.
DeletedRemote(objs, dir, pre_str) ==
    LET keys == ListedFiles(objs, pre_str)
        keys_to_delete ==
            {keys[i] : i \in {j \in 1 .. Len(keys) :
                                 RelKey(keys[j], pre_str) \notin LocalFiles(dir)}}
    IN  [key \in BucketKeys |-> IF key \in keys_to_delete THEN NoValue ELSE objs[key]]

\* sync_bucket_to_local, the download loop over the listed keys: the files
\* of the local directory after it.
RECURSIVE Downloaded(_, _, _, _, _)
Downloaded(keys, objs, fs, pre_str, overwrite_existing) ==
    IF keys = <<>> THEN fs
    ELSE LET key == Head(keys)
             local_path == PosixPath(RelKey(key, pre_str))
         IN  IF fs[local_path] # NoValue /\ ~overwrite_existing
             THEN Downloaded(Tail(keys), objs, fs, pre_str, overwrite_existing)
             ELSE Downloaded(Tail(keys), objs, [fs EXCEPT ![local_path] = objs[key]],
                             pre_str, overwrite_existing)

\* sync_bucket_to_local: keys_in_bucket
KeysInBucket(objs, pre_str) ==
    LET keys == ListedFiles(objs, pre_str)
    IN  {RelKey(keys[i], pre_str) : i \in 1 .. Len(keys)}

\* sync_bucket_to_local, the unlink loop: the local files whose relative
\* path is not in keys_in_bucket are removed.
DeletedLocal(fs, keys_in_bucket) ==
    [rel \in LocalPaths |-> IF rel \notin keys_in_bucket THEN NoValue ELSE fs[rel]]

\* What head_bucket / list_objects_v2 raise under a service, if anything.
HeadBucketError(svc) ==
    CASE svc = "no_bucket" -> "ClientError"
      [] svc = "offline" -> "BotoCoreError"
      [] OTHER -> NoError

ListObjectsError(svc) ==
    CASE svc \in {"no_bucket", "list_denied"} -> "ClientError"
      [] svc = "offline" -> "BotoCoreError"
      [] OTHER -> NoError

\* upload_file, head_object, download_file, delete_objects
ObjectCallError(svc) ==
    CASE svc = "no_bucket" -> "ClientError"
      [] svc = "offline" -> "BotoCoreError"
      [] OTHER -> NoError

\* Path.name: what follows the last slash.
RECURSIVE PathName(_)
PathName(path) ==
    IF \E i \in 1 .. Len(path) : path[i] = "/"
    THEN PathName(Tail(path))
    ELSE path

\* Variant: the prefix is put in front of every key given.
PutKeyAlwaysPrefixed(pre_str, key, local_path) ==
    IF ~key.given THEN pre_str \o PathName(local_path)
    ELSE pre_str \o lstrip_slash(key.k)

\* put_file: the key the file is uploaded to.
PutKey(pre_str, key, local_path) ==
    IF ~key.given THEN pre_str \o PathName(local_path)
    ELSE IF ~startswith(key.k, pre_str) THEN pre_str \o lstrip_slash(key.k)
    ELSE key.k

\* Variant: a failed check is reported as success.
check_connection_always_true(svc, raise_on_error) ==
    [outcome |-> "returned", value |-> TRUE]

\* check_connection: True after head_bucket and list_objects_v2; a
\* ClientError is re-raised or turned into False; nothing else is caught.
check_connection(svc, raise_on_error) ==
    LET e == IF HeadBucketError(svc) # NoError THEN HeadBucketError(svc)
             ELSE ListObjectsError(svc)
    IN  IF e = NoError THEN [outcome |-> "returned", value |-> TRUE]
        ELSE IF e = "ClientError" /\ ~raise_on_error
        THEN [outcome |-> "returned", value |-> FALSE]
        ELSE [outcome |-> e, value |-> FALSE]

\* The pid the operating system gives the next worker.
FreshPid ==
    CHOOSE p \in Pids :
        /\ p \notin alive \cup {process}
        /\ \A q \in Pids : q < p => q \in alive \cup {process}

Snapshot ==
    [sd_inserted |-> sd_inserted, sd_was_removed |-> sd_was_removed,
     was_in_quiet |-> was_in_quiet, process |-> process,
     running |-> process # None /\ process \in alive,
     spawn_pending |-> spawn_pending]

NoObs == [listed |-> TRUE, valid_dirs |-> <<>>, in_quiet |-> FALSE]

\* No worker was spawned yet.
VolumeLog(spawned, absent_since) == [spawned |-> spawned, absent_since |-> absent_since]
NoWatch == [spawned |-> "", absent_since |-> FALSE, before |-> VolumeLog("", FALSE)]

\* in_quiet_hours not called (yet).
NoClock == [now |-> 0, evening |-> 0, morning |-> 0]
NotEvaluated == [done |-> FALSE, value |-> FALSE]

\* load_settings not called (yet).
NoFiles == [i \in Locations |-> Missing]
NotLoaded == [done |-> FALSE, settings |-> DEFAULT_SETTINGS, opened |-> <<>>]

(* ------------------------------ Init ----------------------------------- *)

Boot ==
    /\ settings \in ResolvedSettings
    /\ sd_inserted = FALSE
    /\ sd_was_removed = FALSE
    /\ was_in_quiet = FALSE
    /\ process = None
    /\ cont = NoCont
    /\ alive = {}
    /\ signalled = {}
    /\ argv = NoArgs
    /\ obs = NoObs
    /\ pre = [sd_inserted |-> FALSE, sd_was_removed |-> FALSE,
              was_in_quiet |-> FALSE, process |-> None, running |-> FALSE,
              spawn_pending |-> FALSE]
    /\ ops = <<>>
    /\ caught = NoError
    /\ stop_logged = FALSE
    /\ orphans = {}
    /\ spawn_pending = FALSE
    /\ on_disk = settings.change_interval_minutes
    /\ watch = NoWatch

IdleEvaluator ==
    /\ clock = NoClock
    /\ quiet = NotEvaluated

IdleLoader ==
    /\ files = NoFiles
    /\ loaded = NotLoaded
    /\ override = JList
    /\ merged = <<>>

\* No S3Manager is constructed.
IdleS3 ==
    /\ objects = [key \in BucketKeys |-> NoValue]
    /\ objects_before = objects
    /\ service = "ok"
    /\ prefix = <<>>
    /\ local_dir = [isdir |-> FALSE, files |-> [rel \in LocalPaths |-> NoValue]]
    /\ call = NoCall

\* The supervisor as it starts; no helper is called on its own.
BootSupervisor ==
    /\ Boot
    /\ IdleEvaluator
    /\ IdleLoader
    /\ IdleS3

\* The supervisor does not run.
Off ==
    /\ Boot
    /\ settings = [change_interval_minutes |-> JNull, stop_rotation_between |-> NoWindow]
    /\ pc = "off"

\* monitor_sd_card entered: the loop is about to run its first tick.
Init == BootSupervisor /\ pc = "tick"

(* ------------------------- lifecycle functions ------------------------- *)

\* The try body of a tick ended: normally (NoError) or by exception e.
EndTick(e) ==
    /\ caught' = e
    /\ pc' = IF e = NoError \/ TickCatches(e) THEN "sleep" ELSE "crashed"
    /\ cont' = NoCont

\* A direct call of a lifecycle function returned, or raised e to its caller.
EndCall(e) ==
    /\ caught' = e
    /\ pc' = "call"
    /\ cont' = NoCont

End(api, e) == IF api THEN EndCall(e) ELSE EndTick(e)

\* Blocked in process.wait() after a delivered SIGTERM.
BeginWait(k, sd_path) ==
    /\ signalled' = signalled \cup {process}
    /\ ops' = <<Op("send_signal", process, "", 0)>>
    /\ pc' = "wait"
    /\ cont' = [k |-> k, sd_path |-> sd_path]
    /\ caught' = NoError
    /\ UNCHANGED <<process, alive, argv, orphans, spawn_pending>>

\* Whether send_signal delivers (TRUE) or raises (FALSE) is the environment's
\* choice; a failure that would leave more than MaxOrphans workers behind
\* is not explored.
SignalOutcomes == IF Cardinality(alive) <= MaxOrphans THEN BOOLEAN ELSE {TRUE}

\* Variant: the settings file is read again at every start.
StartSettingsReloaded(at_startup, interval_on_disk) ==
    [at_startup EXCEPT !.change_interval_minutes = interval_on_disk]

\* The settings start_frame_manager is handed: the dict monitor_sd_card
\* loaded before the loop, whatever the file on disk says by now.
StartSettings(at_startup, interval_on_disk) == at_startup

\* start_frame_manager from the refresh time on, and, in a tick, the flag
\* updates that follow its normal return.
SpawnWorker(sd_path, before, api) ==
    \E file \in Files, spawnOk \in BOOLEAN :
    LET refresh_time_sec == get_refresh_time(file, StartSettings(settings, on_disk))
        p == FreshPid
    IN  IF spawnOk
        THEN /\ process' = p
             /\ alive' = alive \cup {p}
             /\ argv' = [sd_path |-> sd_path, refresh |-> refresh_time_sec]
             /\ ops' = Append(before, Op("Popen", p, sd_path, refresh_time_sec))
             /\ spawn_pending' = FALSE
             /\ IF api THEN UNCHANGED flags
                ELSE /\ sd_inserted' = TRUE
                     /\ sd_was_removed' = FALSE
                     /\ was_in_quiet' = FALSE
             /\ End(api, NoError)
        ELSE /\ UNCHANGED <<process, alive, argv, sd_inserted, sd_was_removed, was_in_quiet>>
             /\ ops' = Append(before, Op("Popen_failed", None, sd_path, refresh_time_sec))
             /\ spawn_pending' = TRUE
             /\ End(api, "SpawnError")

\* start_frame_manager: a running worker gets SIGTERM and is waited for
\* (nothing catches a failure here), then the new worker is spawned.
start_frame_manager(sd_path, api) ==
    /\ stop_logged' = FALSE
    /\ IF running
       THEN \E sigOk \in SignalOutcomes :
            IF sigOk
            THEN /\ BeginWait(IF api THEN "api_start" ELSE "start", sd_path)
                 /\ UNCHANGED flags
            ELSE /\ ops' = <<Op("send_signal_failed", process, "", 0)>>
                 /\ End(api, "StopError")
                 /\ UNCHANGED <<process, alive, argv, signalled, sd_inserted,
                                sd_was_removed, was_in_quiet, orphans, spawn_pending>>
       ELSE /\ SpawnWorker(sd_path, <<>>, api)
            /\ UNCHANGED <<signalled, orphans>>

\* stop_frame_manager returns at once: nothing to stop, or the failure of
\* send_signal is caught.
StopReturnsAtOnce(sigOk) == ~running \/ (~sigOk /\ StopCatches("StopError"))

\* Variant: the handle is dropped right after the signal, without the wait.
stop_frame_manager_no_wait(k, sigOk, api) ==
    /\ signalled' = IF running /\ sigOk THEN signalled \cup {process} ELSE signalled
    /\ ops' = IF running
              THEN <<Op(IF sigOk THEN "send_signal" ELSE "send_signal_failed",
                        process, "", 0)>>
              ELSE <<>>
    /\ stop_logged' = (running /\ ~sigOk)
    /\ orphans' = IF running /\ ~sigOk THEN orphans \cup {process} ELSE orphans
    /\ process' = None
    /\ argv' = NoArgs
    /\ UNCHANGED <<alive, spawn_pending>>
    /\ End(api, NoError)

\* Variant: a failed send_signal is logged but the handle is kept.
stop_frame_manager_keeps_handle(k, sigOk, api) ==
    IF running
    THEN IF sigOk
         THEN /\ BeginWait(k, "")
              /\ stop_logged' = FALSE
         ELSE /\ ops' = <<Op("send_signal_failed", process, "", 0)>>
              /\ stop_logged' = TRUE
              /\ UNCHANGED <<process, alive, argv, signalled, orphans, spawn_pending>>
              /\ End(api, NoError)
    ELSE /\ process' = None
         /\ argv' = NoArgs
         /\ ops' = <<>>
         /\ stop_logged' = FALSE
         /\ UNCHANGED <<alive, signalled, orphans, spawn_pending>>
         /\ End(api, NoError)

\* stop_frame_manager, up to the wait; the flags are the caller's.
stop_frame_manager(k, sigOk, api) ==
    IF running
    THEN IF sigOk
         THEN /\ BeginWait(k, "")
              /\ stop_logged' = FALSE
         ELSE /\ ops' = <<Op("send_signal_failed", process, "", 0)>>
              /\ UNCHANGED <<alive, signalled, spawn_pending>>
              /\ IF StopCatches("StopError")
                 THEN /\ stop_logged' = TRUE
                      /\ process' = None
                      /\ argv' = NoArgs
                      /\ orphans' = orphans \cup {process}
                      /\ End(api, NoError)
                 ELSE /\ stop_logged' = FALSE
                      /\ UNCHANGED <<process, argv, orphans>>
                      /\ End(api, "StopError")
    ELSE /\ process' = None
         /\ argv' = NoArgs
         /\ ops' = <<>>
         /\ stop_logged' = FALSE
         /\ UNCHANGED <<alive, signalled, orphans, spawn_pending>>
         /\ End(api, NoError)

(* ------------------------------ the loop ------------------------------- *)

\* Variant: the removal branch sets was-removed and leaves inserted set.
TickBodyRemovalKeepsInserted(in_quiet, listed, valid_dirs) ==
    IF ~listed
    THEN \* os.listdir raised
         /\ ops' = <<>>
         /\ stop_logged' = FALSE
         /\ EndTick("VolumeListError")
         /\ UNCHANGED <<process, alive, signalled, argv, sd_inserted,
                        sd_was_removed, was_in_quiet, orphans, spawn_pending>>
    ELSE IF valid_dirs # <<>>
    THEN LET sd_path == valid_dirs[1]
         IN  IF in_quiet
             THEN \E sigOk \in IF running THEN SignalOutcomes ELSE {TRUE} :
                  /\ IF running
                     THEN stop_frame_manager("quiet", sigOk, FALSE)
                     ELSE /\ ops' = <<>>
                          /\ stop_logged' = FALSE
                          /\ EndTick(NoError)
                          /\ UNCHANGED <<process, alive, signalled, argv, orphans,
                                         spawn_pending>>
                  /\ IF StopReturnsAtOnce(sigOk)
                     THEN /\ sd_inserted' = TRUE
                          /\ sd_was_removed' = FALSE
                          /\ was_in_quiet' = TRUE
                     ELSE UNCHANGED flags
             ELSE IF need_start(sd_inserted, sd_was_removed, running, was_in_quiet)
                  THEN start_frame_manager(sd_path, FALSE)
                  ELSE /\ ops' = <<>>
                       /\ stop_logged' = FALSE
                       /\ EndTick(NoError)
                       /\ UNCHANGED <<process, alive, signalled, argv, sd_inserted,
                                      sd_was_removed, was_in_quiet, orphans,
                                      spawn_pending>>
    ELSE IF sd_inserted
         THEN /\ sd_inserted' = sd_inserted
              /\ sd_was_removed' = TRUE
              /\ was_in_quiet' = was_in_quiet
              /\ \E sigOk \in IF running THEN SignalOutcomes ELSE {TRUE} :
                    stop_frame_manager("removed", sigOk, FALSE)
         ELSE /\ ops' = <<>>
              /\ stop_logged' = FALSE
              /\ EndTick(NoError)
              /\ UNCHANGED <<process, alive, signalled, argv, sd_inserted,
                             sd_was_removed, was_in_quiet, orphans, spawn_pending>>

\* One iteration of `while True` in monitor_sd_card, up to the sleep or up
\* to a blocking process.wait().
TickBody(in_quiet, listed, valid_dirs) ==
    IF ~listed
    THEN \* os.listdir raised
         /\ ops' = <<>>
         /\ stop_logged' = FALSE
         /\ EndTick("VolumeListError")
         /\ UNCHANGED <<process, alive, signalled, argv, sd_inserted,
                        sd_was_removed, was_in_quiet, orphans, spawn_pending>>
    ELSE IF valid_dirs # <<>>
    THEN LET sd_path == valid_dirs[1]
         IN  IF in_quiet
             THEN \E sigOk \in IF running THEN SignalOutcomes ELSE {TRUE} :
                  /\ IF running
                     THEN stop_frame_manager("quiet", sigOk, FALSE)
                     ELSE /\ ops' = <<>>
                          /\ stop_logged' = FALSE
                          /\ EndTick(NoError)
                          /\ UNCHANGED <<process, alive, signalled, argv, orphans,
                                         spawn_pending>>
                  /\ IF StopReturnsAtOnce(sigOk)
                     THEN /\ sd_inserted' = TRUE
                          /\ sd_was_removed' = FALSE
                          /\ was_in_quiet' = TRUE
                     ELSE UNCHANGED flags
             ELSE IF need_start(sd_inserted, sd_was_removed, running, was_in_quiet)
                  THEN start_frame_manager(sd_path, FALSE)
                  ELSE /\ ops' = <<>>
                       /\ stop_logged' = FALSE
                       /\ EndTick(NoError)
                       /\ UNCHANGED <<process, alive, signalled, argv, sd_inserted,
                                      sd_was_removed, was_in_quiet, orphans,
                                      spawn_pending>>
    ELSE IF sd_inserted
         THEN /\ sd_inserted' = FALSE
              /\ sd_was_removed' = TRUE
              /\ was_in_quiet' = was_in_quiet
              /\ \E sigOk \in IF running THEN SignalOutcomes ELSE {TRUE} :
                    stop_frame_manager("removed", sigOk, FALSE)
         ELSE /\ ops' = <<>>
              /\ stop_logged' = FALSE
              /\ EndTick(NoError)
              /\ UNCHANGED <<process, alive, signalled, argv, sd_inserted,
                             sd_was_removed, was_in_quiet, orphans, spawn_pending>>

Poll ==
    /\ pc = "tick"
    /\ \E in_quiet \in {InQuiet(now) : now \in Times}, listing \in Listings :
          /\ pre' = Snapshot
          /\ obs' = [listed |-> listing.listed, valid_dirs |-> listing.valid_dirs,
                     in_quiet |-> in_quiet]
          /\ TickBody(in_quiet, listing.listed, listing.valid_dirs)
    /\ UNCHANGED <<settings, on_disk, evaluator, loader, s3>>

Tick == Poll /\ UNCHANGED watch

\* process.wait() returns once the signalled worker has exited; the caller
\* goes on from there.
WaitReturn ==
    /\ pc = "wait"
    /\ WaitReturns(process, alive)
    /\    LET done == Append(ops, Op("wait", process, "", 0))
          IN  IF cont.k \in {"start", "api_start"}
              THEN SpawnWorker(cont.sd_path, done, cont.k = "api_start")
              ELSE /\ process' = None
                   /\ argv' = NoArgs
                   /\ ops' = done
                   /\ UNCHANGED <<alive, spawn_pending>>
                   /\ End(cont.k = "api_stop", NoError)
                   /\ IF cont.k = "quiet"
                      THEN /\ sd_inserted' = TRUE
                           /\ sd_was_removed' = FALSE
                           /\ was_in_quiet' = TRUE
                      ELSE UNCHANGED flags
    /\ UNCHANGED <<settings, signalled, obs, pre, stop_logged, orphans, aside>>

\* time.sleep(2), then the next iteration.
Sleep ==
    /\ pc = "sleep"
    /\ pc' = "tick"
    /\ UNCHANGED <<settings, sd_inserted, sd_was_removed, was_in_quiet, process, cont,
                   alive, signalled, argv, obs, pre, ops, caught, stop_logged, orphans,
                   spawn_pending, aside>>

(* --------------------------- the environment --------------------------- *)

Gone(p) ==
    /\ alive' = alive \ {p}
    /\ signalled' = signalled \ {p}
    /\ orphans' = orphans \ {p}
    /\ UNCHANGED <<settings, sd_inserted, sd_was_removed, was_in_quiet, process, pc,
                   cont, argv, obs, pre, ops, caught, stop_logged, spawn_pending,
                   aside>>

\* A worker exits on its own (crash, or its script ends).
WorkerExit == \E p \in alive \ signalled : Gone(p)

\* A worker that got SIGTERM exits (the worker installs no handler).
ExitOnSignal == \E p \in alive \cap signalled : Gone(p)

Next == Tick \/ WaitReturn \/ Sleep \/ WorkerExit \/ ExitOnSignal

Spec == Init /\ [][Next]_vars

\* The settings the fair runs start from: no window, or one that opens at 0.
LoopSettings ==
    {s \in ResolvedSettings :
        /\ s.change_interval_minutes = JInt(2)
        /\ s.stop_rotation_between.evening \in {EmptyStr, HHMM(0)}}

\* The loop is scheduled, wait() returns when the child is gone, and a
\* signalled worker exits.
LoopInit == Init /\ settings \in LoopSettings

FairSpec ==
    /\ LoopInit
    /\ [][Next]_vars
    /\ WF_vars(Tick)
    /\ WF_vars(WaitReturn)
    /\ WF_vars(Sleep)
    /\ WF_vars(ExitOnSignal)

(* ------------- the settings file changes while the loop runs ---------- *)

\* The settings file is rewritten with another change_interval_minutes
\* while a worker runs and the supervisor sleeps between two polls.
ConfigChange ==
    /\ pc = "tick"
    /\ running
    /\ \E v \in IntervalValues \ {on_disk} : on_disk' = v
    /\ UNCHANGED <<supervisor, watch, evaluator, loader, s3>>

\* No quiet window, or one that is quiet at time 0 only.
ReconfigSettings ==
    {s \in ResolvedSettings :
        s.stop_rotation_between \in
            {NoWindow, [k |-> "dict", evening |-> HHMM(0), morning |-> HHMM(1)]}}

ReconfigInit == Init /\ settings \in ReconfigSettings

ReconfigNext ==
    Tick \/ WaitReturn \/ Sleep \/ WorkerExit \/ ExitOnSignal \/ ConfigChange

ReconfigSpec == ReconfigInit /\ [][ReconfigNext]_vars

(* ------------------- the lifecycle functions, called directly ---------- *)

ApiInit == BootSupervisor /\ pc = "call"

CallStart ==
    /\ pc = "call"
    /\ \E sd_path \in Volumes :
          /\ pre' = Snapshot
          /\ start_frame_manager(sd_path, TRUE)
    /\ UNCHANGED <<settings, obs, aside>>

CallStop ==
    /\ pc = "call"
    /\ \E sigOk \in IF running THEN SignalOutcomes ELSE {TRUE} :
          /\ pre' = Snapshot
          /\ stop_frame_manager("api_stop", sigOk, TRUE)
    /\ UNCHANGED <<settings, obs, sd_inserted, sd_was_removed, was_in_quiet, aside>>

ApiNext == CallStart \/ CallStop \/ WaitReturn \/ WorkerExit \/ ExitOnSignal

ApiSpec == ApiInit /\ [][ApiNext]_vars

(* ------------------- the quiet-hours evaluator on its own -------------- *)

\* Any time of day against any parsed window.
QuietInit ==
    /\ Off
    /\ IdleLoader
    /\ IdleS3
    /\ clock \in [now : ClockTimes, evening : ClockTimes, morning : ClockTimes]
    /\ quiet = NotEvaluated

EvalQuiet ==
    /\ ~quiet.done
    /\ quiet' = [done |-> TRUE,
                 value |-> in_quiet_hours(clock.now, clock.evening, clock.morning)]
    /\ UNCHANGED <<supervisor, on_disk, watch, clock, loader, s3>>

QuietNext == EvalQuiet

QuietSpec == QuietInit /\ [][QuietNext]_vars

(* ---------------------- the settings loader on its own ----------------- *)

LoaderInit ==
    /\ Off
    /\ IdleEvaluator
    /\ IdleS3
    /\ files \in [Locations -> FileStates]
    /\ loaded = NotLoaded
    /\ override = JList
    /\ merged = <<>>

LoadSettings ==
    /\ ~loaded.done
    /\ LET r == load_settings(files)
       IN  loaded' = [done |-> TRUE, settings |-> r.settings, opened |-> r.opened]
    /\ UNCHANGED <<supervisor, on_disk, watch, evaluator, files, override, merged, s3>>

LoaderNext == LoadSettings

LoaderSpec == LoaderInit /\ [][LoaderNext]_vars

\* The merge loop on its own: `override` is merged into the defaults, and
\* then once more into what that gave.
MergeInit ==
    /\ Off
    /\ IdleEvaluator
    /\ IdleS3
    /\ files = NoFiles
    /\ loaded = NotLoaded
    /\ override \in Overrides
    /\ merged = <<>>

MergeOverride ==
    /\ Len(merged) < 2
    /\ merged' = Append(merged,
                        merge(IF merged = <<>> THEN DEFAULT_SETTINGS
                              ELSE merged[Len(merged)], override))
    /\ UNCHANGED <<supervisor, on_disk, watch, evaluator, files, loaded, override, s3>>

MergeNext == MergeOverride

MergeSpec == MergeInit /\ [][MergeNext]_vars

(* ------------------------- the bucket synchronizer --------------------- *)

\* An S3Manager is constructed on a bucket and is about to be called with a
\* local directory. A bucket that cannot be reached holds nothing we know.
S3Init ==
    /\ Off
    /\ IdleEvaluator
    /\ IdleLoader
    /\ service \in Services
    /\ objects \in [BucketKeys -> Contents \cup {NoValue}]
    /\ \A key \in BucketKeys \ SeedKeys : objects[key] = NoValue
    /\ service \in {"no_bucket", "offline"} => \A key \in BucketKeys : objects[key] = NoValue
    /\ objects_before = objects
    /\ \E raw \in RawPrefixes : prefix = NormalizePrefix(raw)
    /\ local_dir \in [isdir : BOOLEAN, files : [LocalPaths -> {"A", NoValue}]]
    /\ ~local_dir.isdir => \A rel \in LocalPaths : local_dir.files[rel] = NoValue
    /\ call = NoCall

Called(op, delete_extraneous, overwrite_existing, raise_on_error, outcome, value) ==
    [op |-> op, delete_extraneous |-> delete_extraneous,
     overwrite_existing |-> overwrite_existing, raise_on_error |-> raise_on_error,
     local_path |-> <<>>, key |-> KeyNone, outcome |-> outcome, value |-> value]

CheckConnection ==
    /\ call = NoCall
    /\ \E raise_on_error \in BOOLEAN :
          LET r == check_connection(service, raise_on_error)
          IN  call' = Called("check_connection", FALSE, FALSE, raise_on_error,
                             r.outcome, r.value)
    /\ UNCHANGED <<supervisor, on_disk, watch, evaluator, loader, objects, objects_before,
                   service, prefix, local_dir>>

\* sync_local_to_bucket(local_dir, delete_extraneous_remote, overwrite_existing)
SyncLocalToBucket ==
    /\ call = NoCall
    /\ \E delete_extraneous_remote \in BOOLEAN, overwrite_existing \in BOOLEAN :
          LET Result(outcome) ==
                  Called("sync_local_to_bucket", delete_extraneous_remote,
                         overwrite_existing, FALSE, outcome, FALSE)
              uploaded == Uploaded(objects, local_dir, prefix, overwrite_existing)
          IN  IF ~local_dir.isdir
              THEN /\ call' = Result("NotADirectoryError")
                   /\ UNCHANGED objects
              ELSE IF LocalFiles(local_dir) # {} /\ ObjectCallError(service) # NoError
              THEN /\ call' = Result(ObjectCallError(service))
                   /\ UNCHANGED objects
              ELSE IF ~delete_extraneous_remote
              THEN /\ call' = Result("returned")
                   /\ objects' = uploaded
              ELSE IF ListObjectsError(service) # NoError
              THEN /\ call' = Result(ListObjectsError(service))
                   /\ objects' = uploaded
              ELSE /\ call' = Result("returned")
                   /\ objects' = DeletedRemote(uploaded, local_dir, prefix)
    /\ objects_before' = objects
    /\ UNCHANGED <<supervisor, on_disk, watch, evaluator, loader, service, prefix, local_dir>>

\* sync_bucket_to_local(local_dir, delete_extraneous_local, overwrite_existing)
SyncBucketToLocal ==
    /\ call = NoCall
    /\ \E delete_extraneous_local \in BOOLEAN, overwrite_existing \in BOOLEAN :
          LET Result(outcome) ==
                  Called("sync_bucket_to_local", delete_extraneous_local,
                         overwrite_existing, FALSE, outcome, FALSE)
              downloaded == Downloaded(ListedFiles(objects, prefix), objects,
                                       local_dir.files, prefix, overwrite_existing)
          IN  IF ListObjectsError(service) # NoError
              THEN /\ call' = Result(ListObjectsError(service))
                   /\ local_dir' = [local_dir EXCEPT !.isdir = TRUE]
              ELSE /\ call' = Result("returned")
                   /\ local_dir' =
                         [isdir |-> TRUE,
                          files |-> IF delete_extraneous_local
                                    THEN DeletedLocal(downloaded,
                                                      KeysInBucket(objects, prefix))
                                    ELSE downloaded]
    /\ UNCHANGED <<supervisor, on_disk, watch, evaluator, loader, objects, objects_before,
                   service, prefix>>

\* put_file(local_path, key): local_path is one of the paths of the local
\* directory, a file or nothing.
PutFile ==
    /\ call = NoCall
    /\ \E local_path \in LocalPaths, key \in PutKeyArgs :
          LET Result(outcome) ==
                  [Called("put_file", FALSE, FALSE, FALSE, outcome, FALSE)
                      EXCEPT !.local_path = local_path, !.key = key]
          IN  IF local_dir.files[local_path] = NoValue
              THEN /\ call' = Result("FileNotFoundError")
                   /\ UNCHANGED objects
              ELSE IF ObjectCallError(service) # NoError
              THEN /\ call' = Result(ObjectCallError(service))
                   /\ UNCHANGED objects
              ELSE /\ call' = Result("returned")
                   /\ objects' = [objects EXCEPT ![PutKey(prefix, key, local_path)] =
                                                    local_dir.files[local_path]]
    /\ objects_before' = objects
    /\ UNCHANGED <<supervisor, on_disk, watch, evaluator, loader, service, prefix, local_dir>>

S3Next == CheckConnection \/ SyncLocalToBucket \/ SyncBucketToLocal \/ PutFile

S3Spec == S3Init /\ [][S3Next]_vars

(* ------ the loop while the volume stays mounted and spawns succeed ----- *)

\* An iteration of the loop that lists the mount root, finds a directory
\* there, runs outside the quiet window and whose Popen, if it makes one,
\* succeeds.
SteadyTick ==
    /\ Tick
    /\ obs'.listed
    /\ obs'.valid_dirs # <<>>
    /\ ~obs'.in_quiet
    /\ caught' = NoError

SteadyInit == Init /\ settings \in ReconfigSettings

SteadyNext == SteadyTick \/ Sleep \/ WorkerExit

\* The loop is scheduled: `while True` with a sleep of two seconds. When the
\* worker exits is up to the worker.
SteadySpec ==
    /\ SteadyInit
    /\ [][SteadyNext]_vars
    /\ WF_vars(SteadyTick)
    /\ WF_vars(Sleep)

(* ------------- the loop, with the worker's volume on record ------------ *)

\* The record after a tick: the path given to the latest successful Popen,
\* whether a tick has listed no directory since, and both as they were when
\* the tick began.
Watched(w, tick_ops, tick_obs) ==
    LET before == VolumeLog(w.spawned, w.absent_since)
    IN  IF tick_ops # <<>> /\ tick_ops[Len(tick_ops)].op = "Popen"
        THEN [spawned |-> tick_ops[Len(tick_ops)].sd_path, absent_since |-> FALSE,
              before |-> before]
        ELSE IF tick_obs.listed /\ tick_obs.valid_dirs = <<>>
        THEN [spawned |-> w.spawned, absent_since |-> TRUE, before |-> before]
        ELSE [w EXCEPT !.before = before]

WatchedTick == Poll /\ watch' = Watched(watch, ops', obs')

WatchInit == Init /\ settings \in ReconfigSettings

WatchNext == WatchedTick \/ WaitReturn \/ Sleep \/ WorkerExit \/ ExitOnSignal

WatchSpec == WatchInit /\ [][WatchNext]_vars

(* ------------------------------ properties ----------------------------- *)

\* The tick saw a directory under the mount root / saw none / could not list.
Present == obs.listed /\ obs.valid_dirs # <<>>
Absent == obs.listed /\ obs.valid_dirs = <<>>

EndOfTick == pc = "sleep"

IsSpawn(o) == o.op \in {"Popen", "Popen_failed"}

SpawnAttempts == {i \in 1 .. Len(ops) : IsSpawn(ops[i])}

\* The tick made exactly one Popen call, for the first listed directory.
OneSpawnAttempt ==
    /\ Len(ops) = 1
    /\ IsSpawn(ops[1])
    /\ ops[1].sd_path = obs.valid_dirs[1]

\* A successful Popen leaves the new worker tracked and the flags reset.
SpawnOutcome ==
    /\ ops[1].op = "Popen" =>
          /\ caught = NoError
          /\ process = ops[1].pid
          /\ argv = [sd_path |-> ops[1].sd_path, refresh |-> ops[1].refresh]
          /\ sd_inserted /\ ~sd_was_removed /\ ~was_in_quiet
    /\ ops[1].op = "Popen_failed" => caught = "SpawnError"

\* The worker tracked when the tick began was told to stop and its handle
\* is cleared; it is gone unless delivering the signal failed.
StoppedPrevious ==
    /\ process = None
    /\ Len(ops) >= 1
    /\ ops[1].pid = pre.process
    /\ ops[1].op \in {"send_signal", "send_signal_failed"}
    /\ (ops[1].op = "send_signal" => pre.process \notin alive /\ ~stop_logged)
    /\ (ops[1].op = "send_signal_failed" => stop_logged)

C2_QuietStopsAndNoSpawnWhileQuiet ==
    /\ (EndOfTick /\ Present /\ obs.in_quiet /\ pre.running) =>
          /\ StoppedPrevious
          /\ sd_inserted /\ was_in_quiet
    /\ (obs.in_quiet => SpawnAttempts = {})

C2_Witness ==
    /\ EndOfTick
    /\ Present /\ obs.in_quiet /\ pre.running
    /\ process = None
    /\ pre.process \notin alive
    /\ Len(ops) = 2

\* C3: the first tick outside quiet hours after a quiet tick, volume present,
\* makes exactly one Popen call (also when the volume was first seen during
\* quiet hours); a tick that begins with the worker alive and sees the
\* volume outside quiet hours makes none.
C3_QuietEndRestartsOnce ==
    /\ (EndOfTick /\ Present /\ ~obs.in_quiet /\ pre.was_in_quiet) =>
          /\ OneSpawnAttempt
          /\ SpawnOutcome
    /\ (Present /\ ~obs.in_quiet /\ pre.running) =>
          /\ ops = <<>>
          /\ process = pre.process

C3_Witness ==
    /\ EndOfTick
    /\ Present /\ ~obs.in_quiet
    /\ pre.was_in_quiet /\ pre.sd_inserted /\ pre.process = None
    /\ running
    /\ ops[1].op = "Popen"

\* C4: a tick that sees no volume while a worker runs stops it and marks the
\* volume removed; the next tick that sees a volume outside quiet hours
\* makes exactly one Popen call for it; no tick that begins with the worker
\* alive and sees a volume makes one.
C4_RemovalStopsReinsertStartsOnce ==
    /\ (EndOfTick /\ Absent /\ pre.running) =>
          /\ StoppedPrevious
          /\ ~sd_inserted /\ sd_was_removed
    /\ (EndOfTick /\ Present /\ ~obs.in_quiet /\ pre.sd_was_removed) =>
          /\ OneSpawnAttempt
          /\ SpawnOutcome
    /\ (Present /\ pre.running) => SpawnAttempts = {}

C4_Witness ==
    /\ EndOfTick
    /\ Present /\ ~obs.in_quiet
    /\ pre.sd_was_removed
    /\ running
    /\ ops[1].op = "Popen"
    /\ alive = {process}

PositiveInterval ==
    /\ settings.change_interval_minutes.k = "int"
    /\ settings.change_interval_minutes.v > 0

\* C5: from the initial state (nothing seen yet), the first tick that sees a
\* volume outside quiet hours makes exactly one Popen call, with that
\* volume's path and change_interval_minutes * 60 as the refresh time (the
\* configured value being a positive integer); a tick with the volume
\* present, not quiet and the worker alive does nothing.
C5_FirstInsertStartsOnce ==
    /\ (EndOfTick /\ Present /\ ~obs.in_quiet
          /\ ~pre.sd_inserted /\ ~pre.sd_was_removed /\ ~pre.was_in_quiet) =>
          /\ OneSpawnAttempt
          /\ SpawnOutcome
          /\ (PositiveInterval =>
                ops[1].refresh = settings.change_interval_minutes.v * 60)
    /\ (Present /\ ~obs.in_quiet /\ pre.running) =>
          /\ ops = <<>>
          /\ caught = NoError

C5_Witness ==
    /\ EndOfTick
    /\ Present /\ ~obs.in_quiet
    /\ ~pre.sd_inserted /\ ~pre.sd_was_removed /\ ~pre.was_in_quiet
    /\ PositiveInterval
    /\ running
    /\ argv = [sd_path |-> obs.valid_dirs[1],
               refresh |-> settings.change_interval_minutes.v * 60]

\* C6: a Popen call made after the call began with a live tracked worker is
\* the third step, after SIGTERM was sent to that worker and the wait for it
\* returned; whenever a Popen call is made the worker tracked before is not
\* alive; nothing but SIGTERM, wait and Popen is ever issued (no kill).
C6_StopBeforeStart ==
    \A i \in 1 .. Len(ops) :
        /\ ops[i].op \in {"send_signal", "send_signal_failed", "wait", "Popen",
                          "Popen_failed"}
        /\ IsSpawn(ops[i]) =>
              /\ pre.process # None => pre.process \notin alive
              /\ pre.running =>
                    /\ i = 3
                    /\ ops[1] = Op("send_signal", pre.process, "", 0)
                    /\ ops[2] = Op("wait", pre.process, "", 0)
              /\ ~pre.running => i = 1

C6_Witness ==
    /\ pc = "call"
    /\ pre.running
    /\ Len(ops) = 3
    /\ ops[3].op = "Popen"
    /\ running

\* C7: the loop never ends and never stalls: every tick reaches the sleep,
\* also one that raised, and every sleep is followed by another tick.
C7_LoopNeverStalls ==
    /\ [](pc # "crashed")
    /\ ((pc = "tick") ~> (pc = "sleep"))
    /\ ((pc = "sleep") ~> (pc = "tick"))

C7_Witness ==
    /\ pc = "tick"
    /\ caught = "SpawnError"
    /\ pre.running = FALSE
    /\ Present

\* C8 (as stated): a tick whose listing of the mount root fails is handled
\* like a tick that sees no volume: with a volume inserted before, the
\* worker is stopped, was-removed is set and inserted is cleared.
C8_ListErrorHandledAsAbsent ==
    (EndOfTick /\ ~obs.listed /\ pre.sd_inserted) =>
        /\ ~sd_inserted
        /\ sd_was_removed
        /\ ~running

\* C9: a failed Popen is caught at the tick boundary and the loop goes on;
\* the flags and the handle stay as they were, no worker runs while the
\* failure is pending, and every later tick that sees the volume outside
\* quiet hours makes a Popen call again until one succeeds.
C9_SpawnFailureRetried ==
    /\ (caught = "SpawnError" =>
          /\ pc # "crashed"
          /\ spawn_pending
          /\ process = pre.process
          /\ sd_inserted = pre.sd_inserted
          /\ sd_was_removed = pre.sd_was_removed
          /\ was_in_quiet = pre.was_in_quiet)
    /\ (spawn_pending => ~running)
    /\ (EndOfTick /\ Present /\ ~obs.in_quiet /\ pre.spawn_pending) =>
          /\ OneSpawnAttempt
          /\ SpawnOutcome

C9_Witness ==
    /\ EndOfTick
    /\ Present /\ ~obs.in_quiet
    /\ pre.spawn_pending
    /\ pre.sd_inserted
    /\ ops[1].op = "Popen"
    /\ running

\* C10 (as stated): when delivering SIGTERM fails the worker handle is
\* cleared all the same, on every path that stops a worker, the stop inside
\* start_frame_manager included.
C10_StopErrorClearsHandle ==
    \A i \in 1 .. Len(ops) : ops[i].op = "send_signal_failed" => process = None

\* C11: with no stop_rotation_between in the configuration the quiet
\* evaluation is false at every time of day and on every tick: no tick sets
\* the quiet flag or stops the worker for quiet hours, and a tick that sees
\* the volume with no worker running makes its Popen call.
C11_NoWindowNeverQuiet ==
    settings.stop_rotation_between.k = "null" =>
        /\ \A now \in ClockTimes : ~InQuiet(now)
        /\ ~obs.in_quiet
        /\ ~was_in_quiet
        /\ cont.k # "quiet"
        /\ (EndOfTick /\ Present /\ ~pre.running) => OneSpawnAttempt

C11_Witness ==
    /\ settings.stop_rotation_between.k = "null"
    /\ EndOfTick
    /\ Present
    /\ pre.sd_inserted /\ ~pre.running
    /\ SpawnAttempts = {1}
    /\ ops[1].op = "Popen"
    /\ running

\* C12: for a window with evening < morning, in_quiet_hours(t, evening,
\* morning) is true iff evening <= t < morning, for every time of day t.
C12_SameDayWindow ==
    (quiet.done /\ clock.evening < clock.morning) =>
        (quiet.value <=> (clock.evening <= clock.now /\ clock.now < clock.morning))

C12_Witness ==
    /\ quiet.done
    /\ clock.evening < clock.morning
    /\ clock.now = clock.morning
    /\ ~quiet.value

\* C13: for a window with evening > morning (it crosses midnight),
\* in_quiet_hours(t, evening, morning) is true iff t >= evening or
\* t < morning, for every time of day t.
C13_WindowAcrossMidnight ==
    (quiet.done /\ clock.evening > clock.morning) =>
        (quiet.value <=> (clock.now >= clock.evening \/ clock.now < clock.morning))

C13_Witness ==
    /\ quiet.done
    /\ clock.evening > clock.morning
    /\ clock.now = clock.evening
    /\ quiet.value

\* The configured window parses to equal evening and morning times.
DegenerateWindow == quiet_cfg.set /\ quiet_cfg.evening = quiet_cfg.morning

\* C14: with evening = morning in_quiet_hours is true at every time of day,
\* and a supervisor configured with such a window finds every tick quiet
\* and never spawns a worker.
C14_EqualTimesAlwaysQuiet ==
    /\ \A t \in ClockTimes, e \in ClockTimes : in_quiet_hours(t, e, e)
    /\ DegenerateWindow =>
          /\ \A now \in Times : InQuiet(now)
          /\ (pc # "tick" => obs.in_quiet)
          /\ SpawnAttempts = {}
          /\ process = None
          /\ alive = {}

C14_Witness ==
    /\ DegenerateWindow
    /\ EndOfTick
    /\ Present /\ obs.in_quiet
    /\ pre.sd_inserted
    /\ sd_inserted /\ was_in_quiet
    /\ ops = <<>>

\* A location that exists and parses.
Qualifies(i) == files[i].exists /\ files[i].parses

\* The configuration a document resolves to: for each known key the
\* document's value when it has the key, else the default; no other key.
Resolved(data) ==
    [key \in AllKeys |->
        IF key \notin DefaultKeys THEN NoValue
        ELSE IF data.k = "dict" /\ data.d[key] # NoValue THEN data.d[key]
        ELSE DEFAULT_SETTINGS[key]]

\* The locations that exist, up to and including location w, in order.
ExistingUpTo(w) == SelectSeq([i \in Locations |-> i], LAMBDA i : i <= w /\ files[i].exists)

\* C15: load_settings goes through the locations in their order, passes
\* over missing and unparsable ones, takes the first that exists and parses
\* as the result and opens no later one; with no such location the result
\* is the default configuration.
C15_FirstParsableLocationWins ==
    loaded.done =>
        LET qualifying == {i \in Locations : Qualifies(i)}
        IN  IF qualifying = {}
            THEN /\ loaded.settings = DEFAULT_SETTINGS
                 /\ loaded.opened = ExistingUpTo(Len(SETTINGS_LOCATIONS))
            ELSE LET w == CHOOSE i \in qualifying : \A j \in qualifying : i <= j
                 IN  /\ loaded.settings = Resolved(files[w].data)
                     /\ loaded.opened = ExistingUpTo(w)

C15_Witness ==
    /\ loaded.done
    /\ files[1] = Garbled
    /\ Qualifies(2) /\ files[2].data.k = "dict"
    /\ Qualifies(3) /\ files[3].data # files[2].data
    /\ loaded.settings # DEFAULT_SETTINGS
    /\ loaded.opened = <<1, 2>>

\* C16: merging an override into the defaults gives exactly the default
\* keys, each with the override's value when the override has the key and
\* the default otherwise (unknown keys dropped); merging the same override
\* once more into that result changes nothing.
C16_MergeIdempotentAndClosed ==
    /\ Len(merged) >= 1 =>
          /\ {key \in AllKeys : merged[1][key] # NoValue} = DefaultKeys
          /\ merged[1] = Resolved(override)
    /\ Len(merged) = 2 => merged[2] = merged[1]

C16_Witness ==
    /\ Len(merged) = 2
    /\ override.k = "dict"
    /\ \E key \in UnknownKeys : override.d[key] # NoValue
    /\ \E key \in DefaultKeys : override.d[key] \notin {NoValue, DEFAULT_SETTINGS[key]}
    /\ \E key \in DefaultKeys : override.d[key] = NoValue
    /\ merged[2] # DEFAULT_SETTINGS

\* The refresh times get_refresh_time can give for a configuration: sixty
\* times a positive change_interval_minutes, else the number in the
\* volume's refresh_time.txt (45 here) or 600.
RefreshTimesOf(interval) ==
    IF interval.k = "int" /\ interval.v > 0 THEN {interval.v * 60} ELSE {45, 600}

\* C17 (as stated): the refresh time given to a worker is computed at its
\* start from the configuration as it is then, so a change of the settings
\* file made while a worker runs leaves that worker's argument alone and
\* shows in the refresh argument of the next worker spawned.
C17_ConfigChangeReachesNextSpawn ==
    /\ running => argv.refresh \in RefreshTimesOf(settings.change_interval_minutes)
                                    \cup RefreshTimesOf(on_disk)
    /\ EndOfTick =>
          \A i \in SpawnAttempts : ops[i].refresh \in RefreshTimesOf(on_disk)

\* C17 (amended): the refresh time given to a worker is computed at every
\* start, from the settings the supervisor loaded before its loop (and the
\* volume's refresh_time.txt when these hold no positive interval); a change
\* of the settings file made while the supervisor runs shows neither in the
\* running worker's argument nor in that of any worker spawned later.
C17_RefreshFromSettingsLoadedAtStartup ==
    /\ running => argv.refresh \in RefreshTimesOf(settings.change_interval_minutes)
    /\ \A i \in SpawnAttempts :
          ops[i].refresh \in RefreshTimesOf(settings.change_interval_minutes)

C17_Witness ==
    /\ EndOfTick
    /\ pre.sd_inserted /\ ~pre.running
    /\ on_disk = JInt(0)
    /\ settings.change_interval_minutes = JInt(2)
    /\ SpawnAttempts = {1}
    /\ ops[1].op = "Popen"
    /\ running
    /\ argv.refresh = 120

\* The stored keys under the prefix that are no directory markers.
FileKeys ==
    {key \in BucketKeys :
        objects[key] # NoValue /\ startswith(key, prefix) /\ ~endswith_slash(key)}

Returned(op) == call.op = op /\ call.outcome = "returned"

\* C18: after sync_local_to_bucket returns, every file under the local
\* directory has an object at prefix + relative path; with
\* delete_extraneous_remote the keys under the prefix, directory markers
\* aside, are exactly the prefixed relative paths of the local files.
C18_LocalToBucketMirrors ==
    Returned("sync_local_to_bucket") =>
        /\ \A rel \in LocalFiles(local_dir) : objects[prefix \o rel] # NoValue
        /\ call.delete_extraneous =>
              FileKeys = {prefix \o rel : rel \in LocalFiles(local_dir)}

C18_Witness ==
    /\ Returned("sync_local_to_bucket")
    /\ call.delete_extraneous
    /\ prefix = <<"p", "/">>
    /\ LocalFiles(local_dir) = {<<"d", "/", "b">>}
    /\ FileKeys = {<<"p", "/", "d", "/", "b">>}
    /\ objects[<<"a">>] = "B"

\* C19 (as stated): after sync_bucket_to_local returns with
\* overwrite_existing, every object under the prefix that is no directory
\* marker is a local file at local_dir / (key without prefix) with the
\* object's content; with delete_extraneous_local there is no other file.
C19_BucketToLocalMirrors ==
    (Returned("sync_bucket_to_local") /\ call.overwrite_existing) =>
        /\ \A key \in FileKeys :
              local_dir.files[PosixPath(RelKey(key, prefix))] = objects[key]
        /\ call.delete_extraneous =>
              LocalFiles(local_dir) = {PosixPath(RelKey(key, prefix)) : key \in FileKeys}

\* C20: check_connection returns True when head_bucket and the listing
\* succeed; when one of them fails with a ClientError it returns False
\* without raising if raise_on_error is False, and raises the ClientError
\* if raise_on_error is True.
C20_CheckConnectionResult ==
    call.op = "check_connection" =>
        /\ service = "ok" => (call.outcome = "returned" /\ call.value)
        /\ (service \in {"no_bucket", "list_denied"} /\ ~call.raise_on_error) =>
              (call.outcome = "returned" /\ ~call.value)
        /\ (service \in {"no_bucket", "list_denied"} /\ call.raise_on_error) =>
              call.outcome = "ClientError"

C20_Witness ==
    /\ call.op = "check_connection"
    /\ service = "no_bucket"
    /\ ~call.raise_on_error
    /\ call.outcome = "returned"
    /\ ~call.value

\* The key the claim names for put_file(local_path, key).
NamedKey ==
    IF ~call.key.given THEN prefix \o PathName(call.local_path)
    ELSE IF startswith(call.key.k, prefix) THEN call.key.k
    ELSE prefix \o lstrip_slash(call.key.k)

\* C21: after put_file returns for an existing local file, the file's
\* content is stored at the given key when that starts with the prefix, else
\* at prefix + key without leading slashes (prefix + file name for no key);
\* the stored key starts with the prefix and no other object has changed.
C21_PutFileKey ==
    Returned("put_file") =>
        /\ local_dir.files[call.local_path] # NoValue
        /\ objects[NamedKey] = local_dir.files[call.local_path]
        /\ startswith(NamedKey, prefix)
        /\ \A key \in BucketKeys \ {NamedKey} : objects[key] = objects_before[key]

C21_Witness ==
    /\ Returned("put_file")
    /\ prefix = <<"p", "/">>
    /\ call.key = KeyOf(<<"/", "a">>)
    /\ call.local_path = <<"d", "/", "b">>
    /\ objects_before[<<"p", "/", "a">>] = "B"
    /\ objects[<<"p", "/", "a">>] = "A"
    /\ objects[<<"a">>] = "B"

\* The supervisor's flags and handle are what they were when the tick began.
SupervisorUntouched ==
    /\ sd_inserted = pre.sd_inserted
    /\ sd_was_removed = pre.sd_was_removed
    /\ was_in_quiet = pre.was_in_quiet
    /\ process = pre.process

\* C22: a tick that sees the volume outside quiet hours, with inserted set,
\* was-removed and was-in-quiet clear and the worker alive, and a tick that
\* sees no volume with inserted clear, both leave the flags and the handle
\* as they were and issue neither a Popen call nor a signal.
C22_NoOpTicksChangeNothing ==
    /\ (EndOfTick /\ Present /\ ~obs.in_quiet /\ pre.sd_inserted
          /\ ~pre.sd_was_removed /\ ~pre.was_in_quiet /\ pre.running) =>
          /\ SupervisorUntouched
          /\ ops = <<>>
          /\ caught = NoError
    /\ (EndOfTick /\ Absent /\ ~pre.sd_inserted) =>
          /\ SupervisorUntouched
          /\ ops = <<>>
          /\ caught = NoError

C22_Witness ==
    /\ EndOfTick
    /\ Present /\ ~obs.in_quiet
    /\ pre.sd_inserted /\ ~pre.sd_was_removed /\ ~pre.was_in_quiet /\ pre.running
    /\ running
    /\ process = pre.process
    /\ argv.sd_path # ""
    /\ ops = <<>>

\* C23: a tick that sees no volume while inserted is set ends with inserted
\* clear, was-removed set and the handle cleared, the worker that was alive
\* having been told to stop; a tick that sees the volume during quiet hours
\* ends with inserted and was-in-quiet set.
C23_RemovalAndQuietFlags ==
    /\ (EndOfTick /\ Absent /\ pre.sd_inserted) =>
          /\ ~sd_inserted
          /\ sd_was_removed
          /\ was_in_quiet = pre.was_in_quiet
          /\ process = None
          /\ (pre.running => StoppedPrevious)
    /\ (EndOfTick /\ Present /\ obs.in_quiet) =>
          /\ sd_inserted
          /\ was_in_quiet
          /\ ~sd_was_removed

C23_Witness ==
    /\ EndOfTick
    /\ Absent
    /\ pre.sd_inserted /\ pre.running
    /\ ~sd_inserted /\ sd_was_removed
    /\ process = None
    /\ pre.process \notin alive
    /\ Len(ops) = 2

\* The handle tracked when the tick began pointed at a worker that had exited.
WorkerHadExited == pre.process # None /\ ~pre.running

\* C24: with the volume staying present and no quiet hours, the tick after
\* the worker exited on its own makes one Popen call and tracks the new
\* worker; under a fair tick schedule and successful spawns a worker that
\* exited is always followed by a running one, however often it exits.
C24_ExitedWorkerIsRestarted ==
    /\ []((EndOfTick /\ Present /\ ~obs.in_quiet /\ WorkerHadExited) =>
            /\ OneSpawnAttempt
            /\ SpawnOutcome
            /\ ops[1].op = "Popen"
            /\ process # pre.process)
    /\ ((process # None /\ ~running) ~> running)
    /\ []<>running

C24_Witness ==
    /\ EndOfTick
    /\ Present /\ ~obs.in_quiet
    /\ WorkerHadExited
    /\ pre.sd_inserted /\ ~pre.sd_was_removed /\ ~pre.was_in_quiet
    /\ Len(ops) = 1
    /\ ops[1].op = "Popen"
    /\ running

\* Between two iterations of the loop: before a tick or in the sleep after it.
AtTickBoundary == pc \in {"tick", "sleep"}

\* C25: at every tick boundary a live tracked worker implies inserted set
\* and was-in-quiet clear; so in the loop start_frame_manager is never
\* entered with a live worker (its own stop step never sends a signal,
\* waits or fails), and the `quiet hours ended` condition, which needs a
\* live worker with was-in-quiet set, never decides a start.
C25_LiveWorkerIsInsertedAndNotQuiet ==
    /\ (AtTickBoundary /\ running) => (sd_inserted /\ ~was_in_quiet)
    /\ pre.running => (pre.sd_inserted /\ ~pre.was_in_quiet)
    /\ cont.k # "start"
    /\ caught # "StopError"
    /\ SpawnAttempts # {} => (~pre.running /\ Len(ops) = 1)

C25_Witness ==
    /\ pc = "tick"
    /\ running
    /\ sd_inserted /\ ~was_in_quiet
    /\ pre.sd_inserted /\ pre.was_in_quiet /\ pre.process = None
    /\ Present /\ ~obs.in_quiet
    /\ SpawnAttempts = {1}

\* C26: inserted and was-removed are never both set, at the start of a tick
\* or anywhere else; so the `SD card reinserted` condition, which needs
\* both, never decides a start, and every Popen call of a tick that began
\* with was-removed set is made by a tick that began with inserted clear.
C26_InsertedAndRemovedExclusive ==
    /\ ~(sd_inserted /\ sd_was_removed)
    /\ ~(pre.sd_inserted /\ pre.sd_was_removed)
    /\ (SpawnAttempts # {} /\ pre.sd_was_removed) => ~pre.sd_inserted

C26_Witness ==
    /\ EndOfTick
    /\ Present /\ ~obs.in_quiet
    /\ pre.sd_was_removed /\ ~pre.sd_inserted /\ pre.process = None
    /\ SpawnAttempts = {1}
    /\ sd_inserted /\ ~sd_was_removed
    /\ process # None

\* The tick started a worker for another directory than the latest worker's.
StartForOtherVolume ==
    /\ ops # <<>>
    /\ ops[Len(ops)].op = "Popen"
    /\ watch.before.spawned # ""
    /\ ops[Len(ops)].sd_path # watch.before.spawned

\* C27 (as stated): a worker is started for another volume than the one
\* before only after some tick observed no volume in between.
C27_OtherVolumeOnlyAfterAbsentTick ==
    (EndOfTick /\ StartForOtherVolume) => watch.before.absent_since

\* C27 (amended): a tick that sees a volume outside quiet hours with the
\* worker alive is a no-op whatever the first directory is, and the worker
\* keeps the path it was spawned with; a worker is started for another
\* volume only by a tick that began with no live worker: after a tick that
\* observed no volume, after quiet hours, or after the worker exited.
C27_PresenceNotIdentity ==
    /\ running => argv.sd_path = watch.spawned
    /\ (EndOfTick /\ Present /\ ~obs.in_quiet /\ pre.running) =>
          /\ ops = <<>>
          /\ process = pre.process
          /\ watch.spawned = watch.before.spawned
          /\ argv.sd_path = watch.before.spawned
    /\ (EndOfTick /\ StartForOtherVolume) =>
          /\ ~pre.running
          /\ \/ watch.before.absent_since
             \/ pre.was_in_quiet
             \/ pre.process # None

C27_Witness ==
    /\ EndOfTick
    /\ Present /\ ~obs.in_quiet
    /\ pre.running
    /\ running
    /\ ~watch.absent_since
    /\ argv.sd_path = watch.spawned
    /\ obs.valid_dirs[1] # argv.sd_path
    /\ ops = <<>>

====
